---- MODULE Spec2Model ----
(***************************************************************************)
(* A model of three notebooks of avichalk/notebooks-latest:                *)
(*   - AntaresVariableRCBStars.ipynb   (alert search, variability check)   *)
(*   - DataReductionPyrafGMOS.ipynb    (GMOS long-slit reduction)          *)
(*   - Breaking_the_Solar_System.ipynb (set-up cells, N-body simulations)  *)
(* One behaviour is one kernel session that runs one notebook from top to  *)
(* bottom, one statement per step; the GMOS notebook may be followed by a  *)
(* second pass, with or without its clean-up commands.  Sky coordinates    *)
(* are whole arcseconds (1/3600 degree = 1), magnitudes and wavelengths    *)
(* are integers.                                                           *)
(***************************************************************************)
EXTENDS Integers, Sequences, FiniteSets, TLC

VARIABLES
    notebook,   \* which notebook this session runs
    pc,         \* the statement the kernel is about to execute
    error,      \* the exception that stopped the run ("" while none)
    output,     \* the lines printed so far
    filters,    \* warnings.filters: the list of warning filters, first match wins
    saved,      \* the filter list a catch_warnings block saved on entry
    warnlog,    \* the warnings issued so far: category, place, shown or not
    netlog,     \* the network calls made so far, each with its outcome
    \* ---- AntaresVariableRCBStars.ipynb
    catalog,    \* ra and dec of the candidates (WISE_RCrB.dat)
    idx,        \* position of the for loop in [228, 229, 230]
    query,      \* the query document of the current candidate
    searches,   \* the search calls issued: candidate id, query document and
                \* the number of loci the answer has yielded so far
    nLoci,      \* loci the service has returned so far in this run
    locus,      \* the loop variable `locus`
    df,         \* the dataframe `df`
    dn,         \* the dataframe `dn`
    bound,      \* the names among locus, df, dn that are bound in the kernel
    figure,     \* the figure the light-curve cell has drawn so far
    \* ---- DataReductionPyrafGMOS.ipynb
    files,      \* the files of the working directory, each with the step that wrote it
    database,   \* the wavelength solutions of database/, each with its step
    steps,      \* the reduction calls executed so far, with what each found and wrote
    spectrum,   \* the HDUs gsextract wrote into the extracted spectrum
    iraf_out,   \* the variable `iraf_out`
    flux,       \* the array `flux`
    wave,       \* the array `wave`
    run,        \* 1 in the first pass over the cells, 2 in a second pass
    cleaned,    \* whether the clean-up commands were run after the first pass
    \* ---- Breaking_the_Solar_System.ipynb
    installed,  \* the packages installed in the environment
    response,   \* the variable `r`: the response of requests.get
    toolsFile,  \* what the file tools.ipynb holds
    namespace,  \* the modules and helper routines bound in the kernel
    sims,       \* the simulations created so far, each with the objects added
    stmt        \* the next statement of the simulation cells

antaresVars ==
    <<catalog, idx, query, searches, nLoci, locus, df, dn, bound, figure>>
gmosVars ==
    <<files, database, steps, spectrum, iraf_out, flux, wave, run, cleaned>>
sharedVars == <<notebook, pc, error, output, filters, saved, warnlog, netlog>>
solarVars == <<installed, response, toolsFile, namespace, sims, stmt>>
vars == <<sharedVars, antaresVars, gmosVars, solarVars>>

(***************************************************************************)
(* Bounds of the model.                                                    *)
(***************************************************************************)
\* Loci the alert service returns in one execution of the query cell.
MaxLoci == 2
\* Pixels of the extracted spectrum.
MaxPix == 3

(***************************************************************************)
(* AntaresVariableRCBStars.ipynb: constants of the query cell.             *)
(***************************************************************************)
Candidates == <<228, 229, 230>>
BoxHalfWidth == 1
Threshold == 2
GBand == 1
RBand == 2
\* pandas' missing value, and astropy's masked table cell.
NaN == -1
Masked == -2

NoValue == [none |-> TRUE]

CandidateIds == { Candidates[k] : k \in 1..Len(Candidates) }

\* Candidate lists: the rows 228 to 230 shown in the recorded output of the
\* query cell (degrees times 3600, rounded), and a list whose rows lie 2
\* arcseconds apart.
CatalogSamples ==
    { (228 :> [ra |-> 992998,  dec |-> -50793]) @@
      (229 :> [ra |-> 1019946, dec |-> -98033]) @@
      (230 :> [ra |-> 1010494, dec |-> -46455]),
      (228 :> [ra |-> 10, dec |-> -2]) @@
      (229 :> [ra |-> 12, dec |-> 0]) @@
      (230 :> [ra |-> 14, dec |-> 2]) }

(***************************************************************************)
(* Time series the service may return.  A row holds the four columns the   *)
(* cell selects and one column it does not select.                         *)
(***************************************************************************)
Row(mjd, fid, mag, sig, ap) ==
    [ant_mjd |-> mjd, ztf_fid |-> fid, ztf_magpsf |-> mag,
     ztf_sigmapsf |-> sig, ztf_magap |-> ap]

\* g-band detections: none, a range of exactly 2 mag, a range of 3 mag.
GSamples ==
    { <<>>,
      <<Row(1, 1, 10, 1, 10), Row(2, 1, 12, 1, Masked)>>,
      <<Row(1, 1, 13, 1, 10), Row(2, 1, 10, 1, 10)>> }

\* r-band detections: none, a range of exactly 2 mag, a range of 3 mag.
RSamples ==
    { <<>>,
      <<Row(3, 2, 15, 1, 15), Row(4, 2, 17, 1, 15)>>,
      <<Row(3, 2, 15, 1, Masked), Row(4, 2, 18, 1, 15)>> }

\* Further rows: a faint g-band row without uncertainty; a row of a third
\* band, an r-band row without timestamp and a row without band id.
XSamples ==
    { <<>>,
      <<Row(5, 1, 20, Masked, 20)>>,
      <<Row(5, 3, 30, 1, 30), Row(Masked, 2, 30, 1, 30),
        Row(6, Masked, 30, 1, 30)>> }

TimeSeriesSamples ==
    { g \o x \o r : g \in GSamples, x \in XSamples, r \in RSamples }

(***************************************************************************)
(* Python's warning filters.                                               *)
(***************************************************************************)
WarningCategories == {"TableReplaceWarning", "RuntimeWarning"}

Filter(action, category) == [action |-> action, category |-> category]

\* issubclass(category, filter category); "Warning" is the base class.
IsSubclass(c, f) == f = "Warning" \/ c = f

RECURSIVE FirstMatch(_, _)
FirstMatch(fs, c) ==
    IF fs = <<>> THEN "default"
    ELSE IF IsSubclass(c, fs[1].category) THEN fs[1].action
    ELSE FirstMatch(Tail(fs), c)

\* warnings.warn: the first matching filter decides; no match shows the warning.
Shown(fs, c) == FirstMatch(fs, c) # "ignore"

Warn(log, fs, c, place) ==
    log \cup { [category |-> c, place |-> place, shown |-> Shown(fs, c)] }

\* A faulty simplefilter, for the sensitivity of C7: the category is dropped
\* and the filter matches every warning.
SimpleFilterAnyCategory(fs, action, category) ==
    <<Filter(action, "Warning")>> \o fs

\* warnings.simplefilter(action, category): insert at the front of the list.
SimpleFilter(fs, action, category) == <<Filter(action, category)>> \o fs

(***************************************************************************)
(* AntaresVariableRCBStars.ipynb: the query cell.                          *)
(***************************************************************************)
\* A faulty query document, for the sensitivity of C10: the dec clause is
\* built from ra.
QueryRaForDec(row) ==
    [query |->
      [bool |->
        [must |->
          << [range |-> [ra  |-> [gte |-> row.ra - BoxHalfWidth,
                                  lte |-> row.ra + BoxHalfWidth]]],
             [range |-> [dec |-> [gte |-> row.ra - BoxHalfWidth,
                                  lte |-> row.ra + BoxHalfWidth]]] >>]]]

\* The query document of one candidate row: a bool/must of two range clauses.
Query(row) ==
    [query |->
      [bool |->
        [must |->
          << [range |-> [ra  |-> [gte |-> row.ra - BoxHalfWidth,
                                  lte |-> row.ra + BoxHalfWidth]]],
             [range |-> [dec |-> [gte |-> row.dec - BoxHalfWidth,
                                  lte |-> row.dec + BoxHalfWidth]]] >>]]]

\* Table.to_pandas(): every column is kept, a masked cell becomes NaN.
ToPandas(ts) ==
    [k \in 1..Len(ts) |->
        [c \in DOMAIN ts[k] |-> IF ts[k][c] = Masked THEN NaN ELSE ts[k][c]]]

SelectedColumns == {"ant_mjd", "ztf_fid", "ztf_magpsf", "ztf_sigmapsf"}

\* df[[...]]: the same rows, restricted to the listed columns.
SelectColumns(frame, cols) ==
    [k \in 1..Len(frame) |-> [c \in cols |-> frame[k][c]]]

HasNoNaN(r) == \A c \in DOMAIN r : r[c] # NaN

\* A faulty dropna, for the sensitivity of C17: only a missing magnitude
\* drops the row.
DropNaMagnitudeOnly(frame) ==
    SelectSeq(frame, LAMBDA r : r.ztf_magpsf # NaN)

\* DataFrame.dropna(): the rows in which no column is missing, in order.
DropNa(frame) == SelectSeq(frame, HasNoNaN)

\* frame['ztf_magpsf'][frame['ztf_fid'] == b]
BandMags(frame, b) ==
    LET InBand(r) == r.ztf_fid = b
        rows == SelectSeq(frame, InBand)
    IN  [k \in 1..Len(rows) |-> rows[k].ztf_magpsf]

Range(s) == { s[k] : k \in 1..Len(s) }

\* Python's max and min of a non-empty sequence (both raise on an empty one).
PyMax(s) == CHOOSE m \in Range(s) : \A x \in Range(s) : x <= m
PyMin(s) == CHOOSE m \in Range(s) : \A x \in Range(s) : m <= x

\* The condition of the two if statements of the query cell.
ExceedsThreshold(mags) == PyMax(mags) - PyMin(mags) > Threshold

IterationLine(i, row) ==
    [text |-> "Iteration: ", i |-> i, ra |-> row.ra, dec |-> row.dec]

HitLine(id, band) ==
    [text |-> "Got a hit on locus_id: ", locus_id |-> id, band |-> band]

\* An exception no cell catches: the run stops and shows it.
Raise(exc) == pc' = "raised" /\ error' = exc

\* One network call and whether it brought what was asked for.
NetCall(call, ok) == [call |-> call, ok |-> ok]

\* A faulty loop head, for the sensitivity of C9: the last candidate is
\* left out.
ForCandidateStopsEarly ==
    /\ notebook = "antares" /\ pc = "for"
    /\ IF idx < Len(Candidates) - 1
          THEN idx' = idx + 1 /\ pc' = "print"
          ELSE idx' = idx /\ pc' = "ylim"
    /\ UNCHANGED <<notebook, netlog, error, output, filters, saved, warnlog>>
    /\ UNCHANGED <<gmosVars, solarVars>>
    /\ UNCHANGED <<catalog, query, searches, nLoci, locus, df, dn, bound, figure>>

\* for i in [228, 229, 230]:
ForCandidate ==
    /\ notebook = "antares" /\ pc = "for"
    /\ IF idx < Len(Candidates)
          THEN idx' = idx + 1 /\ pc' = "print"
          ELSE idx' = idx /\ pc' = "ylim"
    /\ UNCHANGED <<notebook, netlog, error, output, filters, saved, warnlog>>
    /\ UNCHANGED <<gmosVars, solarVars>>
    /\ UNCHANGED <<catalog, query, searches, nLoci, locus, df, dn, bound, figure>>

\* print("Iteration: ", i, "ra", ra[i], "dec", dec[i])
PrintIteration ==
    /\ notebook = "antares" /\ pc = "print"
    /\ output' = Append(output,
                         IterationLine(Candidates[idx], catalog[Candidates[idx]]))
    /\ pc' = "query"
    /\ UNCHANGED <<notebook, netlog, error, filters, saved, warnlog, antaresVars>>
    /\ UNCHANGED <<gmosVars, solarVars>>

\* query = { ... }
BuildQuery ==
    /\ notebook = "antares" /\ pc = "query"
    /\ query' = Query(catalog[Candidates[idx]])
    /\ pc' = "search"
    /\ UNCHANGED <<notebook, netlog, error, output, filters, saved, warnlog>>
    /\ UNCHANGED <<gmosVars, solarVars>>
    /\ UNCHANGED <<catalog, idx, searches, nLoci, locus, df, dn, bound, figure>>

\* search(query): one call to the alert service, which answers or fails.
Search ==
    /\ notebook = "antares" /\ pc = "search"
    /\ searches' = Append(searches, [i |-> Candidates[idx], query |-> query,
                                     loci |-> 0])
    /\ \E answered \in BOOLEAN :
          /\ netlog' = Append(netlog, NetCall("search", answered))
          /\ IF answered THEN pc' = "locus" /\ UNCHANGED error
                          ELSE Raise("ConnectionError")
    /\ UNCHANGED <<notebook, output, filters, saved, warnlog>>
    /\ UNCHANGED <<gmosVars, solarVars>>
    /\ UNCHANGED <<catalog, idx, query, nLoci, locus, df, dn, bound, figure>>

\* A faulty locus loop, for the sensitivity of C20: an answer without a
\* locus raises.
NextLocusRaisesOnEmpty ==
    /\ notebook = "antares" /\ pc = "locus"
    /\ \/ /\ nLoci < MaxLoci
          /\ \E ts \in TimeSeriesSamples :
                locus' = [locus_id |-> nLoci + 1, timeseries |-> ts]
          /\ nLoci' = nLoci + 1
          /\ searches' = [searches EXCEPT ![Len(searches)].loci = @ + 1]
          /\ bound' = bound \cup {"locus"}
          /\ pc' = "with"
          /\ UNCHANGED error
       \/ /\ IF searches[Len(searches)].loci = 0
               THEN Raise("StopIteration")
               ELSE pc' = "for" /\ UNCHANGED error
          /\ UNCHANGED <<nLoci, locus, bound, searches>>
    /\ UNCHANGED <<notebook, netlog, output, filters, saved, warnlog>>
    /\ UNCHANGED <<gmosVars, solarVars>>
    /\ UNCHANGED <<catalog, idx, query, df, dn, figure>>

\* for locus in search(query): the next locus of the answer, or its end.
NextLocus ==
    /\ notebook = "antares" /\ pc = "locus"
    /\ \/ /\ nLoci < MaxLoci
          /\ \E ts \in TimeSeriesSamples :
                locus' = [locus_id |-> nLoci + 1, timeseries |-> ts]
          /\ nLoci' = nLoci + 1
          /\ searches' = [searches EXCEPT ![Len(searches)].loci = @ + 1]
          /\ bound' = bound \cup {"locus"}
          /\ pc' = "with"
       \/ /\ pc' = "for"
          /\ UNCHANGED <<nLoci, locus, bound, searches>>
    /\ UNCHANGED <<notebook, netlog, error, output, filters, saved, warnlog>>
    /\ UNCHANGED <<gmosVars, solarVars>>
    /\ UNCHANGED <<catalog, idx, query, df, dn, figure>>

\* with warnings.catch_warnings(): the filter list is saved.
EnterCatchWarnings ==
    /\ notebook = "antares" /\ pc = "with"
    /\ saved' = filters
    /\ pc' = "simplefilter"
    /\ UNCHANGED <<notebook, netlog, error, output, filters, warnlog, antaresVars>>
    /\ UNCHANGED <<gmosVars, solarVars>>

\* warnings.simplefilter("ignore", astropy.table.TableReplaceWarning)
IgnoreTableReplace ==
    /\ notebook = "antares" /\ pc = "simplefilter"
    /\ filters' = SimpleFilter(filters, "ignore", "TableReplaceWarning")
    /\ pc' = "to_pandas"
    /\ UNCHANGED <<notebook, netlog, error, output, saved, warnlog, antaresVars>>
    /\ UNCHANGED <<gmosVars, solarVars>>

\* df = locus.timeseries.to_pandas(): the cast may issue a warning.
CastToPandas ==
    /\ notebook = "antares" /\ pc = "to_pandas"
    /\ df' = ToPandas(locus.timeseries)
    /\ bound' = bound \cup {"df"}
    /\ \E w \in WarningCategories \cup {"none"} :
          warnlog' = IF w = "none" THEN warnlog
                     ELSE Warn(warnlog, filters, w, "to_pandas")
    /\ pc' = "exit_with"
    /\ UNCHANGED <<notebook, netlog, error, output, filters, saved>>
    /\ UNCHANGED <<gmosVars, solarVars>>
    /\ UNCHANGED <<catalog, idx, query, searches, nLoci, locus, dn, figure>>

\* The end of the with block: the saved filter list is put back.
ExitCatchWarnings ==
    /\ notebook = "antares" /\ pc = "exit_with"
    /\ filters' = saved
    /\ pc' = "select"
    /\ UNCHANGED <<notebook, netlog, error, output, saved, warnlog, antaresVars>>
    /\ UNCHANGED <<gmosVars, solarVars>>

\* df = df[['ant_mjd', 'ztf_fid', 'ztf_magpsf', 'ztf_sigmapsf']]
SelectFourColumns ==
    /\ notebook = "antares" /\ pc = "select"
    /\ df' = SelectColumns(df, SelectedColumns)
    /\ pc' = "dropna"
    /\ UNCHANGED <<notebook, netlog, error, output, filters, saved, warnlog>>
    /\ UNCHANGED <<gmosVars, solarVars>>
    /\ UNCHANGED <<catalog, idx, query, searches, nLoci, locus, dn, bound, figure>>

\* dn = df.dropna()
DropMissing ==
    /\ notebook = "antares" /\ pc = "dropna"
    /\ dn' = DropNa(df)
    /\ bound' = bound \cup {"dn"}
    /\ pc' = "check_g"
    /\ UNCHANGED <<notebook, netlog, error, output, filters, saved, warnlog>>
    /\ UNCHANGED <<gmosVars, solarVars>>
    /\ UNCHANGED <<catalog, idx, query, searches, nLoci, locus, df, figure>>

\* A faulty check, for the sensitivity of C21: a band without rows reports
\* no hit.
CheckBandNoHitOnEmpty(b, name, nextpc) ==
    LET mags == BandMags(dn, b) IN
    /\ pc' = nextpc
    /\ UNCHANGED error
    /\ output' = IF mags # <<>> /\ ExceedsThreshold(mags)
                    THEN Append(output, HitLine(locus.locus_id, name))
                    ELSE output

\* if max(...) - min(...) > 2: print(...) for one band; max of no row raises.
CheckBand(b, name, nextpc) ==
    LET mags == BandMags(dn, b) IN
    IF mags = <<>>
      THEN Raise("ValueError") /\ UNCHANGED output
      ELSE /\ pc' = nextpc
           /\ UNCHANGED error
           /\ output' = IF ExceedsThreshold(mags)
                           THEN Append(output, HitLine(locus.locus_id, name))
                           ELSE output

\* A faulty first check, for the sensitivity of C19: the r band is looked
\* at before the g band.
CheckRBandFirst ==
    /\ notebook = "antares" /\ pc = "check_g"
    /\ CheckBand(RBand, "r-band", "check_r")
    /\ UNCHANGED <<notebook, netlog, filters, saved, warnlog, antaresVars>>
    /\ UNCHANGED <<gmosVars, solarVars>>

CheckGBand ==
    /\ notebook = "antares" /\ pc = "check_g"
    /\ CheckBand(GBand, "g-band", "check_r")
    /\ UNCHANGED <<notebook, netlog, filters, saved, warnlog, antaresVars>>
    /\ UNCHANGED <<gmosVars, solarVars>>

CheckRBand ==
    /\ notebook = "antares" /\ pc = "check_r"
    /\ CheckBand(RBand, "r-band", "locus")
    /\ UNCHANGED <<notebook, netlog, filters, saved, warnlog, antaresVars>>
    /\ UNCHANGED <<gmosVars, solarVars>>

\* The locus the title of the light-curve cell names, ANT2018c7igm.  Loci
\* are numbered in the order the service returns them; in the recorded run
\* ANT2020emqbg is the first and ANT2018c7igm the second.
TitleLocusId == 2

\* dn[column][dn['ztf_fid'] == b] against dn['ant_mjd'] of the same rows.
BandPoints(frame, b) ==
    LET rows == SelectSeq(frame, LAMBDA r : r.ztf_fid = b)
    IN  [k \in 1..Len(rows) |-> <<rows[k].ant_mjd, rows[k].ztf_magpsf>>]

AllMags(frame) == [k \in 1..Len(frame) |-> frame[k].ztf_magpsf]

\* The limits of the magnitude axis, in tenths of a magnitude:
\* max + 0.1 * (max - min) at the bottom, min - 0.1 * (max - min) at the top.
YLim(frame) ==
    LET hi == PyMax(AllMags(frame))
        lo == PyMin(AllMags(frame))
    IN  <<10 * hi + (hi - lo), 10 * lo - (hi - lo)>>

\* plt.ylim(max(dn['ztf_magpsf']) + ..., min(dn['ztf_magpsf']) - ...): the
\* first statement of the light-curve cell reads the dn the query cell left.
SetYLim ==
    /\ notebook = "antares" /\ pc = "ylim"
    /\ IF "dn" \notin bound
          THEN Raise("NameError") /\ UNCHANGED figure
          ELSE IF dn = <<>>
                 THEN Raise("ValueError") /\ UNCHANGED figure
                 ELSE /\ figure' = [ylim |-> YLim(dn)]
                      /\ pc' = "scatter"
                      /\ UNCHANGED error
    /\ UNCHANGED <<notebook, netlog, output, filters, saved, warnlog>>
    /\ UNCHANGED <<gmosVars, solarVars>>
    /\ UNCHANGED <<catalog, idx, query, searches, nLoci, locus, df, dn, bound>>

\* plt.scatter of the r-band rows in red and of the g-band rows in green,
\* plt.title('Light curve of Locus_id=ANT2018c7igm'), the labels, plt.show().
ShowLightCurve ==
    /\ notebook = "antares" /\ pc = "scatter"
    /\ figure' = [ylim  |-> figure.ylim,
                  red   |-> BandPoints(dn, RBand),
                  green |-> BandPoints(dn, GBand),
                  title |-> [text |-> "Light curve of Locus_id=",
                             locus_id |-> TitleLocusId]]
    /\ pc' = "cell_done"
    /\ UNCHANGED <<notebook, netlog, error, output, filters, saved, warnlog>>
    /\ UNCHANGED <<gmosVars, solarVars>>
    /\ UNCHANGED <<catalog, idx, query, searches, nLoci, locus, df, dn, bound>>

AntaresNext ==
    \/ ForCandidate \/ PrintIteration \/ BuildQuery \/ Search \/ NextLocus
    \/ EnterCatchWarnings \/ IgnoreTableReplace \/ CastToPandas
    \/ ExitCatchWarnings \/ SelectFourColumns \/ DropMissing
    \/ CheckGBand \/ CheckRBand \/ SetYLim \/ ShowLightCurve

(***************************************************************************)
(* DataReductionPyrafGMOS.ipynb.  A file name is the sequence of its parts: *)
(* the letters a task put in front, the name of the raw frame, a suffix.   *)
(***************************************************************************)
Science == <<"N20190302S0248">>
Arc == <<"N20190302S0249">>
FlatFrame == <<"N20190302S0250">>
Bias == <<"N20190304S0204_bias">>
NoName == <<>>

\* The file that holds an image: IRAF adds the extension.
Fits(name) == name \o <<".fits">>

\* The URLs the download cell writes to gmos.list.
ArchiveUrl(file) == [site |-> "https://archive.gemini.edu/file/", file |-> file]
GmosList ==
    << ArchiveUrl(Fits(Science)), ArchiveUrl(Fits(Arc)),
       ArchiveUrl(Fits(FlatFrame)), ArchiveUrl(Fits(Bias)) >>

\* A faulty reading of the keywords, for the sensitivity of C14: fl_bias
\* stays at its default, yes, whatever the call says.
CallBiasOn(task, input, bias, flat, specflat, wavtraname, fl_bias, fl_flat) ==
    [task |-> task, input |-> input, bias |-> bias, flat |-> flat,
     specflat |-> specflat, wavtraname |-> wavtraname,
     fl_bias |-> TRUE, fl_flat |-> fl_flat]

Call(task, input, bias, flat, specflat, wavtraname, fl_bias, fl_flat) ==
    [task |-> task, input |-> input, bias |-> bias, flat |-> flat,
     specflat |-> specflat, wavtraname |-> wavtraname,
     fl_bias |-> fl_bias, fl_flat |-> fl_flat]

\* The calls of the three reduction cells, in order, with the file names as
\* the cells spell them (fl_bias and fl_flat default to yes).
GmosCalls ==
    << Call("gsreduce", <<"N20190302S0248">>, <<"N20190304S0204_bias">>,
            NoName, NoName, NoName, TRUE, FALSE),
       Call("gsreduce", <<"N20190302S0249">>, <<"N20190304S0204_bias">>,
            NoName, NoName, NoName, TRUE, FALSE),
       Call("gsreduce", <<"N20190302S0250">>, <<"N20190304S0204_bias">>,
            NoName, NoName, NoName, TRUE, FALSE),
       Call("gsflat", <<"g", "s", "N20190302S0250">>, NoName, NoName,
            <<"N20190302S0250", "_flat">>, NoName, FALSE, FALSE),
       Call("gsreduce", <<"g", "s", "N20190302S0248">>, NoName,
            <<"N20190302S0250", "_flat">>, NoName, NoName, FALSE, TRUE),
       Call("gswavelength", <<"g", "s", "N20190302S0249">>, NoName, NoName,
            NoName, NoName, FALSE, FALSE),
       Call("gstransform", <<"g", "s", "N20190302S0249">>, NoName, NoName,
            NoName, <<"g", "s", "N20190302S0249">>, FALSE, FALSE),
       Call("gstransform", <<"g", "s", "g", "s", "N20190302S0248">>, NoName,
            NoName, NoName, <<"g", "s", "N20190302S0249">>, FALSE, FALSE),
       Call("gsskysub", <<"t", "g", "s", "g", "s", "N20190302S0248">>, NoName,
            NoName, NoName, NoName, FALSE, FALSE),
       Call("gsextract", <<"s", "t", "g", "s", "g", "s", "N20190302S0248">>,
            NoName, NoName, NoName, NoName, FALSE, FALSE) >>

\* The path the display cell opens.
DisplayPath ==
    <<"e", "s", "t", "g", "s", "g", "s", "N20190302S0248", ".fits">>

\* A faulty prefix table, for the sensitivity of C5: gstransform writes
\* under tr, so the name gsskysub is given does not exist.
OutPrefixTransformTr(task) ==
    CASE task = "gsreduce"    -> <<"g", "s">>
      [] task = "gstransform" -> <<"t", "r">>
      [] task = "gsskysub"    -> <<"s">>
      [] task = "gsextract"   -> <<"e">>
      [] OTHER                -> <<>>

\* What each task puts in front of the name of its input.
OutPrefix(task) ==
    CASE task = "gsreduce"    -> <<"g", "s">>
      [] task = "gstransform" -> <<"t">>
      [] task = "gsskysub"    -> <<"s">>
      [] task = "gsextract"   -> <<"e">>
      [] OTHER                -> <<>>

\* A faulty output name, for the sensitivity of C3: the letters of the task
\* are put behind the name of the input.
OutputNameSuffixed(c) ==
    CASE c.task = "gsflat"       -> c.specflat
      [] c.task = "gswavelength" -> NoName
      [] OTHER                   -> c.input \o OutPrefix(c.task)

\* The image a call writes: gsflat writes the image specflat names,
\* gswavelength writes no image.
OutputName(c) ==
    CASE c.task = "gsflat"       -> c.specflat
      [] c.task = "gswavelength" -> NoName
      [] OTHER                   -> OutPrefix(c.task) \o c.input

\* The images a call reads.
InputNames(c) ==
    {c.input}
      \cup (IF c.task = "gsreduce" /\ c.fl_bias THEN {c.bias} ELSE {})
      \cup (IF c.task = "gsreduce" /\ c.fl_flat THEN {c.flat} ELSE {})

\* The wavelength solution a call reads from, or writes to, database/.
SolutionRead(c) == IF c.task = "gstransform" THEN {c.wavtraname} ELSE {}
SolutionWritten(c) == IF c.task = "gswavelength" THEN {c.input} ELSE {}

FileNames == { f.name : f \in files }
SolutionNames == { d.name : d \in database }
Written(names, by) == { [name |-> n, by |-> by] : n \in names }

\* numpy arrays are indexed from 0.
Shape0(a) == Cardinality(DOMAIN a)
\* A faulty arange, for the sensitivity of C2: the pixels count from 1.
ArangeFromOne(n) == [i \in 0..(n - 1) |-> i + 1]
Arange(n) == [i \in 0..(n - 1) |-> i]

\* np.arange(flux.shape[0]) * header['CD1_1'] + header['CRVAL1']
Wave(data, header) ==
    LET pixels == Arange(Shape0(data))
    IN  [i \in DOMAIN pixels |-> pixels[i] * header.CD1_1 + header.CRVAL1]

\* Extracted spectra gsextract may write: a primary HDU, the mask definition
\* table and one science extension.
FluxSamples == {0, 100000}
HeaderSamples ==
    { [EXTNAME |-> "SCI", CRVAL1 |-> c, CD1_1 |-> d] :
        c \in {3800, 5000}, d \in {-1, 2} }
SpectrumSamples ==
    UNION { { (0 :> [data |-> <<>>, header |-> [EXTNAME |-> "PHU"]]) @@
              (1 :> [data |-> <<>>, header |-> [EXTNAME |-> "MDF"]]) @@
              (2 :> [data |-> d, header |-> h]) :
                d \in [0..(n - 1) -> FluxSamples], h \in HeaderSamples }
            : n \in 1..MaxPix }

\* %%bash: echo ... > gmos.list; wget -N -q -i gmos.list.  wget fetches what
\* it can of the list and exits non-zero when a file is missing; the kernel
\* of the notebook's day raises on a non-zero exit, an older one does not.
DownloadCell ==
    /\ notebook = "gmos" /\ pc = "download"
    /\ \E got \in SUBSET { GmosList[k].file : k \in 1..Len(GmosList) } :
         LET all == got = { GmosList[k].file : k \in 1..Len(GmosList) } IN
         /\ files' = files \cup Written({<<"gmos.list">>} \cup got, 0)
         /\ netlog' = Append(netlog, NetCall("wget", all))
         /\ IF all THEN pc' = "iraf" /\ UNCHANGED error
            ELSE \E raises \in BOOLEAN :
                   IF raises THEN Raise("CalledProcessError")
                             ELSE pc' = "iraf" /\ UNCHANGED error
    /\ UNCHANGED <<notebook, output, filters, saved, warnlog>>
    /\ UNCHANGED <<database, steps, spectrum, iraf_out, flux, wave, run, cleaned>>
    /\ UNCHANGED <<antaresVars, solarVars>>

\* The log the tasks of the gmos package append to.
LogFile == <<"gmos.log">>

\* One call of a task of the gmos package.  A task that misses an input, or
\* whose output exists, reports it in its log and writes nothing.
RunTask ==
    /\ notebook = "gmos" /\ pc = "iraf"
    /\ LET k == Len(steps) + 1
           c == GmosCalls[k]
           missing == { Fits(n) : n \in InputNames(c) } \ FileNames
           unsolved == SolutionRead(c) \ SolutionNames
           out == IF OutputName(c) = NoName THEN {} ELSE {Fits(OutputName(c))}
           exists == out \cap FileNames
           ok == missing = {} /\ unsolved = {} /\ exists = {}
           log == IF LogFile \in FileNames THEN {} ELSE Written({LogFile}, k)
       IN  /\ steps' = Append(steps, [call |-> c, ok |-> ok, missing |-> missing,
                                      unsolved |-> unsolved, exists |-> exists,
                                      wrote |-> IF ok THEN out ELSE {}])
           /\ files' = IF ok THEN files \cup Written(out, k) \cup log
                       ELSE files \cup log
           /\ database' = IF ok THEN database \cup Written(SolutionWritten(c), k)
                          ELSE database
           /\ IF ok /\ c.task = "gsextract"
                THEN spectrum' \in SpectrumSamples
                ELSE spectrum' = spectrum
           /\ pc' = IF k = Len(GmosCalls) THEN "fits_open" ELSE "iraf"
    /\ UNCHANGED <<notebook, error, output, filters, saved, warnlog, netlog>>
    /\ UNCHANGED <<iraf_out, flux, wave, run, cleaned>>
    /\ UNCHANGED <<antaresVars, solarVars>>

\* iraf_out = fits.open("estgsgsN20190302S0248.fits")
FitsOpen ==
    /\ notebook = "gmos" /\ pc = "fits_open"
    /\ IF DisplayPath \in FileNames
         THEN iraf_out' = spectrum /\ pc' = "flux" /\ UNCHANGED error
         ELSE Raise("IOError") /\ UNCHANGED iraf_out
    /\ UNCHANGED <<notebook, output, filters, saved, warnlog, netlog>>
    /\ UNCHANGED <<files, database, steps, spectrum, flux, wave, run, cleaned>>
    /\ UNCHANGED <<antaresVars, solarVars>>

\* flux = iraf_out[2].data
ReadFlux ==
    /\ notebook = "gmos" /\ pc = "flux"
    /\ flux' = iraf_out[2].data
    /\ pc' = "wave"
    /\ UNCHANGED <<notebook, error, output, filters, saved, warnlog, netlog>>
    /\ UNCHANGED <<files, database, steps, spectrum, iraf_out, wave, run, cleaned>>
    /\ UNCHANGED <<antaresVars, solarVars>>

\* wave = np.arange(flux.shape[0]) * iraf_out[2].header['CD1_1']
\*        + iraf_out[2].header['CRVAL1']
ComputeWave ==
    /\ notebook = "gmos" /\ pc = "wave"
    /\ wave' = Wave(flux, iraf_out[2].header)
    /\ pc' = "plot"
    /\ UNCHANGED <<notebook, error, output, filters, saved, warnlog, netlog>>
    /\ UNCHANGED <<files, database, steps, spectrum, iraf_out, flux, run, cleaned>>
    /\ UNCHANGED <<antaresVars, solarVars>>

\* plt.plot(wave, flux, linewidth=5): x and y must have the same length.
PlotSpectrum ==
    /\ notebook = "gmos" /\ pc = "plot"
    /\ IF Shape0(wave) = Shape0(flux)
         THEN pc' = "cell_done" /\ UNCHANGED error
         ELSE Raise("ValueError")
    /\ UNCHANGED <<notebook, output, filters, saved, warnlog, netlog>>
    /\ UNCHANGED <<gmosVars, antaresVars, solarVars>>

\* The reduction cells are run a second time with the files of the first
\* pass in place.
RerunReduction ==
    /\ notebook = "gmos" /\ pc = "cell_done" /\ run = 1
    /\ run' = 2 /\ steps' = <<>> /\ pc' = "iraf"
    /\ UNCHANGED <<notebook, error, output, filters, saved, warnlog, netlog>>
    /\ UNCHANGED <<files, database, spectrum, iraf_out, flux, wave, cleaned>>
    /\ UNCHANGED <<antaresVars, solarVars>>

\* The name parts that hold N2019030.
FrameNames == {"N20190302S0248", "N20190302S0249", "N20190302S0250",
               "N20190304S0204_bias"}

\* A faulty pattern list, for the sensitivity of C12: only the first
\* pattern, *N2019030*.fits.
RemovedByRmFramesOnly(name) ==
    /\ name[Len(name)] = ".fits"
    /\ \E k \in 1..Len(name) : name[k] \in FrameNames

\* rm -f *N2019030*.fits Afx*.fits gmos.list gmos.log _sed tmp*
RemovedByRm(name) ==
    \/ /\ name[Len(name)] = ".fits"
       /\ \E k \in 1..Len(name) : name[k] \in FrameNames
    \/ name[Len(name)] = ".fits" /\ name[1] = "Afx"
    \/ name \in {<<"gmos.list">>, <<"gmos.log">>, <<"_sed">>}
    \/ name[1] = "tmp"

\* The two commands of the clean-up cell, uncommented, and the return to the
\* download cell for a second pass:
\*   !rm -f *N2019030*.fits Afx*.fits gmos.list gmos.log _sed tmp*
\*   !rm -rf database/
CleanUp ==
    /\ notebook = "gmos" /\ pc = "cell_done" /\ run = 1
    /\ files' = { f \in files : ~RemovedByRm(f.name) }
    /\ database' = {}
    /\ cleaned' = TRUE
    /\ run' = 2 /\ steps' = <<>> /\ pc' = "download"
    /\ UNCHANGED <<notebook, error, output, filters, saved, warnlog, netlog>>
    /\ UNCHANGED <<spectrum, iraf_out, flux, wave>>
    /\ UNCHANGED <<antaresVars, solarVars>>

GmosNext ==
    \/ DownloadCell \/ RunTask \/ FitsOpen \/ ReadFlux \/ ComputeWave
    \/ PlotSpectrum \/ RerunReduction \/ CleanUp

GmosIdle ==
    /\ files = {} /\ database = {} /\ steps = <<>>
    /\ spectrum = <<>> /\ iraf_out = <<>> /\ flux = <<>> /\ wave = <<>>
    /\ run = 1 /\ cleaned = FALSE

(***************************************************************************)
(* Breaking_the_Solar_System.ipynb.                                        *)
(***************************************************************************)
HelperNames ==
    {"initialize_simulation", "add_star", "add_planet", "run_simulation"}

Statement(fn, cell) == [fn |-> fn, cell |-> cell]

\* The helper calls of the code cells, top to bottom: the four cells of
\* Activity 1, the combined example, the cell of Activity 3.
SimStatements ==
    << Statement("initialize_simulation", "Part 1.1"),
       Statement("add_star", "Part 1.2"),
       Statement("add_planet", "Part 1.3"),
       Statement("run_simulation", "Part 1.4"),
       Statement("initialize_simulation", "example"),
       Statement("add_star", "example"),
       Statement("add_planet", "example"),
       Statement("add_planet", "example"),
       Statement("run_simulation", "example"),
       Statement("initialize_simulation", "Activity 3"),
       Statement("add_planet", "Activity 3"),
       Statement("add_planet", "Activity 3"),
       Statement("add_planet", "Activity 3"),
       Statement("add_planet", "Activity 3"),
       Statement("add_planet", "Activity 3"),
       Statement("run_simulation", "Activity 3") >>

PrintLine(text) == [text |-> text]

\* print("Congrats! You have successfully run your first cell!")
PrintCongrats ==
    /\ notebook = "solar" /\ pc = "congrats"
    /\ output' = Append(output, PrintLine("Congrats!"))
    /\ pc' = "pip"
    /\ UNCHANGED <<notebook, error, filters, saved, warnlog, netlog>>
    /\ UNCHANGED <<solarVars, antaresVars, gmosVars>>

\* !pip install rebound &> /dev/null: the shell command installs the package
\* or fails; its output is discarded and its exit status is not looked at.
PipInstall ==
    /\ notebook = "solar" /\ pc = "pip"
    /\ \E ok \in BOOLEAN :
         /\ installed' = IF ok THEN installed \cup {"rebound"} ELSE installed
         /\ netlog' = Append(netlog, NetCall("pip", ok))
    /\ pc' = "print_pip"
    /\ UNCHANGED <<notebook, error, output, filters, saved, warnlog>>
    /\ UNCHANGED <<response, toolsFile, namespace, sims, stmt>>
    /\ UNCHANGED <<antaresVars, gmosVars>>

\* print("You have successfully installled: Rebound")
PrintInstalled ==
    /\ notebook = "solar" /\ pc = "print_pip"
    /\ output' = Append(output, PrintLine("You have successfully installled: Rebound"))
    /\ pc' = "get"
    /\ UNCHANGED <<notebook, error, filters, saved, warnlog, netlog>>
    /\ UNCHANGED <<solarVars, antaresVars, gmosVars>>

\* r = requests.get(url, allow_redirects=True, stream=True): the server
\* sends the helper notebook, or an error status with an error page, or the
\* connection fails; only the last raises.
RequestsGet ==
    /\ notebook = "solar" /\ pc = "get"
    /\ \E outcome \in {"helpers", "error_page", "no_connection"} :
         /\ netlog' = Append(netlog, NetCall("requests.get", outcome = "helpers"))
         /\ IF outcome = "no_connection"
              THEN Raise("ConnectionError") /\ UNCHANGED response
              ELSE /\ response' = [status_ok |-> outcome = "helpers",
                                   content |-> outcome]
                   /\ pc' = "write_tools" /\ UNCHANGED error
    /\ UNCHANGED <<notebook, output, filters, saved, warnlog>>
    /\ UNCHANGED <<installed, toolsFile, namespace, sims, stmt>>
    /\ UNCHANGED <<antaresVars, gmosVars>>

\* open('tools.ipynb', 'wb').write(r.content)
WriteTools ==
    /\ notebook = "solar" /\ pc = "write_tools"
    /\ toolsFile' = response.content
    /\ pc' = "print_tools"
    /\ UNCHANGED <<notebook, error, output, filters, saved, warnlog, netlog>>
    /\ UNCHANGED <<installed, response, namespace, sims, stmt>>
    /\ UNCHANGED <<antaresVars, gmosVars>>

\* print("You have succesfully downloaded the additional tools ...")
PrintDownloaded ==
    /\ notebook = "solar" /\ pc = "print_tools"
    /\ output' = Append(output,
                        PrintLine("You have succesfully downloaded the additional tools"))
    /\ pc' = "import_rebound"
    /\ UNCHANGED <<notebook, error, filters, saved, warnlog, netlog>>
    /\ UNCHANGED <<solarVars, antaresVars, gmosVars>>

\* A faulty import, for the sensitivity of C16: the name is bound whether
\* or not the package is installed.
ImportReboundAnyway ==
    /\ notebook = "solar" /\ pc = "import_rebound"
    /\ namespace' = namespace \cup {"rebound"}
    /\ pc' = "run_tools"
    /\ UNCHANGED <<notebook, error, output, filters, saved, warnlog, netlog>>
    /\ UNCHANGED <<installed, response, toolsFile, sims, stmt>>
    /\ UNCHANGED <<antaresVars, gmosVars>>

\* import rebound
ImportRebound ==
    /\ notebook = "solar" /\ pc = "import_rebound"
    /\ IF "rebound" \in installed
         THEN /\ namespace' = namespace \cup {"rebound"}
              /\ pc' = "run_tools" /\ UNCHANGED error
         ELSE Raise("ModuleNotFoundError") /\ UNCHANGED namespace
    /\ UNCHANGED <<notebook, output, filters, saved, warnlog, netlog>>
    /\ UNCHANGED <<installed, response, toolsFile, sims, stmt>>
    /\ UNCHANGED <<antaresVars, gmosVars>>

\* %run tools.ipynb: the cells of the helper notebook run in this kernel and
\* may issue a warning; a file that is no notebook raises.
RunTools ==
    /\ notebook = "solar" /\ pc = "run_tools"
    /\ IF toolsFile = "helpers"
         THEN /\ namespace' = namespace \cup HelperNames
              /\ \E w \in WarningCategories \cup {"none"} :
                   warnlog' = IF w = "none" THEN warnlog
                              ELSE Warn(warnlog, filters, w, "tools.ipynb")
              /\ pc' = "filterwarnings" /\ UNCHANGED error
         ELSE Raise("NotJSONError") /\ UNCHANGED <<namespace, warnlog>>
    /\ UNCHANGED <<notebook, output, filters, saved, netlog>>
    /\ UNCHANGED <<installed, response, toolsFile, sims, stmt>>
    /\ UNCHANGED <<antaresVars, gmosVars>>

\* warnings.filterwarnings("ignore"): a filter for every warning category,
\* put at the front of the list and never taken out.
FilterWarnings ==
    /\ notebook = "solar" /\ pc = "filterwarnings"
    /\ filters' = SimpleFilter(filters, "ignore", "Warning")
    /\ pc' = "print_done"
    /\ UNCHANGED <<notebook, error, output, saved, warnlog, netlog>>
    /\ UNCHANGED <<solarVars, antaresVars, gmosVars>>

\* print('Done! You have successfully imported the libraries.')
PrintDone ==
    /\ notebook = "solar" /\ pc = "print_done"
    /\ output' = Append(output, PrintLine("Done!"))
    /\ pc' = "sim"
    /\ UNCHANGED <<notebook, error, filters, saved, warnlog, netlog>>
    /\ UNCHANGED <<solarVars, antaresVars, gmosVars>>

\* The statement about to run is a call of helper fn.
AtCall(fn) ==
    /\ notebook = "solar" /\ pc = "sim"
    /\ stmt <= Len(SimStatements)
    /\ SimStatements[stmt].fn = fn

\* After a simulation statement: the next one, or the last cell.
Advance ==
    /\ stmt' = stmt + 1
    /\ pc' = IF stmt = Len(SimStatements) THEN "save" ELSE "sim"

\* mysim = initialize_simulation()
InitializeSimulation ==
    /\ AtCall("initialize_simulation")
    /\ IF "initialize_simulation" \in namespace
         THEN /\ sims' = Append(sims, [cell |-> SimStatements[stmt].cell,
                                       added |-> <<>>, ran |-> FALSE])
              /\ Advance /\ UNCHANGED error
         ELSE Raise("NameError") /\ UNCHANGED <<sims, stmt>>
    /\ UNCHANGED <<notebook, output, filters, saved, warnlog, netlog>>
    /\ UNCHANGED <<installed, response, toolsFile, namespace>>
    /\ UNCHANGED <<antaresVars, gmosVars>>

\* A helper that adds one object to mysim, the simulation created last.
AddObject(fn, kind) ==
    /\ AtCall(fn)
    /\ IF fn \in namespace
         THEN /\ sims' = [sims EXCEPT ![Len(sims)].added = Append(@, kind)]
              /\ Advance /\ UNCHANGED error
         ELSE Raise("NameError") /\ UNCHANGED <<sims, stmt>>
    /\ UNCHANGED <<notebook, output, filters, saved, warnlog, netlog>>
    /\ UNCHANGED <<installed, response, toolsFile, namespace>>
    /\ UNCHANGED <<antaresVars, gmosVars>>

\* add_star(mysim, name=..., mass=...)
AddStar == AddObject("add_star", "star")

\* add_planet(mysim, name=..., mass=..., a=..., ...)
AddPlanet == AddObject("add_planet", "planet")

\* movie = run_simulation(mysim, end_time=...): the integration may issue a
\* warning.
RunSimulation ==
    /\ AtCall("run_simulation")
    /\ IF "run_simulation" \in namespace
         THEN /\ sims' = [sims EXCEPT ![Len(sims)].ran = TRUE]
              /\ \E w \in WarningCategories \cup {"none"} :
                   warnlog' = IF w = "none" THEN warnlog
                              ELSE Warn(warnlog, filters, w, "run_simulation")
              /\ Advance /\ UNCHANGED error
         ELSE Raise("NameError") /\ UNCHANGED <<sims, stmt, warnlog>>
    /\ UNCHANGED <<notebook, output, filters, saved, netlog>>
    /\ UNCHANGED <<installed, response, toolsFile, namespace>>
    /\ UNCHANGED <<antaresVars, gmosVars>>

\* movie.save('mymovie.mpeg')
SaveMovie ==
    /\ notebook = "solar" /\ pc = "save"
    /\ pc' = "cell_done"
    /\ UNCHANGED <<notebook, error, output, filters, saved, warnlog, netlog>>
    /\ UNCHANGED <<solarVars, antaresVars, gmosVars>>

SolarNext ==
    \/ PrintCongrats \/ PipInstall \/ PrintInstalled \/ RequestsGet
    \/ WriteTools \/ PrintDownloaded \/ ImportRebound \/ RunTools
    \/ FilterWarnings \/ PrintDone \/ InitializeSimulation \/ AddStar
    \/ AddPlanet \/ RunSimulation \/ SaveMovie

SolarIdle ==
    /\ installed = {} /\ response = NoValue /\ toolsFile = "absent"
    /\ namespace = {} /\ sims = <<>> /\ stmt = 1

AntaresIdle ==
    /\ catalog = [c \in CandidateIds |-> [ra |-> 0, dec |-> 0]]
    /\ idx = 0 /\ query = NoValue /\ searches = <<>> /\ nLoci = 0
    /\ locus = NoValue /\ df = <<>> /\ dn = <<>>
    /\ bound = {} /\ figure = NoValue

AntaresInit ==
    /\ notebook = "antares" /\ pc = "for"
    /\ catalog \in CatalogSamples
    /\ idx = 0 /\ query = NoValue /\ searches = <<>> /\ nLoci = 0
    /\ locus = NoValue /\ df = <<>> /\ dn = <<>>
    /\ bound = {} /\ figure = NoValue

SharedInit ==
    /\ error = "" /\ output = <<>> /\ filters = <<>> /\ saved = <<>>
    /\ warnlog = {} /\ netlog = <<>>

GmosInit == notebook = "gmos" /\ pc = "download" /\ GmosIdle

SolarInit ==
    /\ notebook = "solar" /\ pc = "congrats"
    /\ installed \in SUBSET {"rebound"}
    /\ response = NoValue /\ toolsFile = "absent"
    /\ namespace = {} /\ sims = <<>> /\ stmt = 1

\* A session runs one of the three notebooks, from its first code cell.
Init ==
    /\ SharedInit
    /\ \/ AntaresInit /\ GmosIdle /\ SolarIdle
       \/ GmosInit /\ AntaresIdle /\ SolarIdle
       \/ SolarInit /\ AntaresIdle /\ GmosIdle

Next == AntaresNext \/ GmosNext \/ SolarNext

Spec == Init /\ [][Next]_vars

(***************************************************************************)
(* Properties.                                                             *)
(***************************************************************************)
BandName(b) == IF b = GBand THEN "g-band" ELSE "r-band"

\* The rows of a time series in which none of the four selected columns is
\* masked and whose band id is b.
ValidBandRows(ts, b) ==
    { k \in 1..Len(ts) :
        /\ \A c \in SelectedColumns : ts[k][c] # Masked
        /\ ts[k].ztf_fid = b }

\* Two such rows lie more than 2 mag apart.
VariesByMoreThanTwo(ts, b) ==
    \E j, k \in ValidBandRows(ts, b) :
        ts[j].ztf_magpsf - ts[k].ztf_magpsf > 2

\* The query cell is through with the locus it received last.
LocusHandled ==
    /\ notebook = "antares" /\ "locus" \in bound
    /\ pc \in {"locus", "for", "print", "query", "search", "ylim", "scatter",
               "cell_done", "raised"}

\* C1 (as claimed): for every locus a search returned and each band g, r, the
\* hit line of that locus and band is printed when and only when the valid
\* rows of the band span more than 2 mag.  The code breaks it: a locus that
\* has no valid row in the g band ends the cell with a ValueError before its
\* r band is looked at.
C1_HitIffVariable ==
    LocusHandled =>
        \A b \in {GBand, RBand} :
            (HitLine(locus.locus_id, BandName(b)) \in Range(output))
                <=> VariesByMoreThanTwo(locus.timeseries, b)

\* C2: once wave is computed it is as long as flux, which is the data of
\* extension 2 of the extracted spectrum, and wave[i] = CRVAL1 + i * CD1_1
\* with both keywords from the header of that extension.
C2_WaveMatchesFlux ==
    (notebook = "gmos" /\ pc \in {"plot", "cell_done"}) =>
        /\ flux = spectrum[2].data
        /\ Shape0(wave) = Shape0(flux)
        /\ \A i \in 0..(Shape0(flux) - 1) :
              /\ i \in DOMAIN wave
              /\ wave[i] = spectrum[2].header.CRVAL1
                             + i * spectrum[2].header.CD1_1

\* A spectrum of several pixels with a negative wavelength step was plotted.
C2_Witness ==
    /\ notebook = "gmos" /\ pc = "cell_done"
    /\ Shape0(flux) >= 2
    /\ spectrum[2].header.CD1_1 < 0

\* The file name out is the file name in with something put in front.
IsPrefixed(out, in) ==
    /\ Len(out) > Len(in)
    /\ SubSeq(out, Len(out) - Len(in) + 1, Len(out)) = in

C4_OneLetterPerStep ==
    \A k \in 1..Len(steps) :
        steps[k].ok =>
            \E f \in steps[k].wrote :
                /\ Len(f) = Len(Fits(steps[k].call.input)) + 1
                /\ Tail(f) = Fits(steps[k].call.input)

\* The step that wrote the file of this name.
WrittenBy(name) == (CHOOSE f \in files : f.name = name).by

\* The step that wrote the wavelength solution of this name.
SolvedBy(name) == (CHOOSE d \in database : d.name = name).by

\* C5: in a top-to-bottom run (the first pass) every file a call finds was written before the
\* call, by the download (step 0) or an earlier call; with the four frames
\* downloaded every call finds its inputs; and the producers are the ones
\* named: gsreduce reads downloads, gsflat (4) the gsreduce output of frame
\* 0250 (3), the flat-fielding gsreduce (5) the gsreduce output of frame 0248
\* (1) and the flat of gsflat (4), gstransform of the science frame (8) the
\* output of 5 and the solution gswavelength (6) found on the reduced arc
\* (2), gsskysub (9) the output of 8, gsextract (10) the output of 9, and the
\* display opens the output of 10.
C5_DataFlow ==
    (notebook = "gmos" /\ run = 1) =>
      /\ \A k \in 1..Len(steps) :
           LET s == steps[k]
               c == steps[k].call
               by == WrittenBy(Fits(c.input))
           IN  /\ netlog[1].ok => s.ok
               /\ \A f \in files :
                     f.name \in { Fits(n) : n \in InputNames(c) } => f.by < k
               /\ s.ok =>
                    /\ k \in 1..3 => /\ by = 0
                                     /\ WrittenBy(Fits(c.bias)) = 0
                    /\ k = 4 => /\ c.task = "gsflat" /\ by = 3
                                /\ steps[3].call.input = FlatFrame
                    /\ k = 5 => /\ c.task = "gsreduce" /\ by = 1
                                /\ steps[1].call.input = Science
                                /\ WrittenBy(Fits(c.flat)) = 4
                    /\ k = 6 => /\ c.task = "gswavelength" /\ by = 2
                                /\ steps[2].call.input = Arc
                    /\ k = 7 => by = 2 /\ SolvedBy(c.wavtraname) = 6
                    /\ k = 8 => /\ c.task = "gstransform" /\ by = 5
                                /\ SolvedBy(c.wavtraname) = 6
                    /\ k = 9 => c.task = "gsskysub" /\ by = 8
                    /\ k = 10 => c.task = "gsextract" /\ by = 9
      /\ pc \in {"flux", "wave", "plot", "cell_done"} =>
           /\ WrittenBy(DisplayPath) = Len(GmosCalls)
           /\ steps[Len(GmosCalls)].call.task = "gsextract"

\* The notebook ran to its end: the extracted spectrum was opened and plotted.
C5_Witness ==
    /\ notebook = "gmos" /\ pc = "cell_done"
    /\ Len(steps) = Len(GmosCalls)

\* C6 (as claimed): a search, wget or requests.get call that fails is the
\* last network call of the run and the run stops with its exception.  The
\* code breaks it: requests.get returns an error page as an ordinary
\* response, which the cell writes to tools.ipynb and reports as a success.
C6_NetworkFailureRaises ==
    \A k \in 1..Len(netlog) :
        (netlog[k].call \in {"search", "wget", "requests.get"} /\ ~netlog[k].ok)
            => (pc = "raised" /\ k = Len(netlog))

InsideWith == pc \in {"to_pandas", "exit_with"}

\* C7 (as claimed): the only warning ever suppressed is a TableReplaceWarning
\* of the cast, and outside the cast the filter list is the original one.
C7_OnlyTableReplaceSuppressed ==
    /\ \A w \in warnlog :
          ~w.shown => w.category = "TableReplaceWarning" /\ w.place = "to_pandas"
    /\ ~InsideWith => filters = <<>>

AfterFilterWarnings == pc \in {"print_done", "sim", "save", "cell_done"}

\* C7 (amended): in the ANTARES notebook the only warning suppressed is the
\* TableReplaceWarning of the cast, and before and after the with block the
\* filter list is the one that held before; the GMOS notebook suppresses
\* nothing; the software loading cell of Breaking the Solar System installs a
\* filter that ignores every warning category from that statement to the end
\* of the session; no exception is caught anywhere.
C7_SuppressionScopes ==
    /\ notebook = "antares" =>
         /\ \A w \in warnlog :
               /\ w.place = "to_pandas"
               /\ w.shown <=> w.category # "TableReplaceWarning"
         /\ ~InsideWith => filters = <<>>
         /\ InsideWith =>
               filters = <<Filter("ignore", "TableReplaceWarning")>>
    /\ notebook = "gmos" => filters = <<>> /\ warnlog = {}
    /\ notebook = "solar" =>
         /\ \A w \in warnlog : w.shown <=> w.place = "tools.ipynb"
         /\ IF AfterFilterWarnings
              THEN filters = <<Filter("ignore", "Warning")>>
              ELSE filters = <<>>
    /\ error # "" <=> pc = "raised"

\* After the with block of the cast: a TableReplaceWarning was suppressed, a
\* warning of another category was shown, and the filter list is restored.
C7_Witness ==
    /\ notebook = "antares" /\ pc = "select"
    /\ \E w \in warnlog : w.category = "TableReplaceWarning" /\ ~w.shown
    /\ \E w \in warnlog : w.category = "RuntimeWarning" /\ w.shown
    /\ filters = <<>>

\* C8 (as claimed): in every simulation the first object added is the star.
\* The code breaks it: the Activity 3 cell as shipped adds Mercury first and
\* never adds a star.
C8_StarFirst ==
    \A k \in 1..Len(sims) :
        sims[k].added # <<>> => sims[k].added[1] = "star"

SearchedIds == [k \in 1..Len(searches) |-> searches[k].i]

IsPrefixOf(s, t) == Len(s) <= Len(t) /\ s = SubSeq(t, 1, Len(s))

PcRank ==
    CASE pc \in {"cell_done", "raised"} -> 0
      [] pc = "scatter" -> 1       [] pc = "ylim" -> 2
      [] pc = "for" -> 3           [] pc = "locus" -> 4
      [] pc = "check_r" -> 5       [] pc = "check_g" -> 6
      [] pc = "dropna" -> 7        [] pc = "select" -> 8
      [] pc = "exit_with" -> 9     [] pc = "to_pandas" -> 10
      [] pc = "simplefilter" -> 11 [] pc = "with" -> 12
      [] pc = "search" -> 13       [] pc = "query" -> 14
      [] pc = "print" -> 15

\* What is left of the query cell and the light-curve cell: candidates, then
\* loci, then statements.
Remaining ==
    ((Len(Candidates) - idx) * (MaxLoci + 2) + (MaxLoci - nLoci)) * 16 + PcRank

\* C9: the searches issued are always the candidates 228, 229, 230 in that
\* order, one search each, as far as the loop has come; a cell that ends
\* without an exception has searched all three; and the cell ends: while it
\* runs a statement can execute, and every statement leaves less to do.
C9_ThreeSearchesAndEnd ==
    /\ [](notebook = "antares" =>
            /\ IsPrefixOf(SearchedIds, <<228, 229, 230>>)
            /\ Len(SelectSeq(netlog, LAMBDA n : n.call = "search"))
                 = Len(searches)
            /\ Len(searches) \in {idx - 1, idx}
            /\ pc = "cell_done" => SearchedIds = <<228, 229, 230>>
            /\ pc \notin {"cell_done", "raised"} => ENABLED Next
            /\ Remaining >= 0)
    /\ [][notebook = "antares" => Remaining' < Remaining]_vars

\* The cell ended without an exception after the service returned loci.
C9_Witness ==
    /\ notebook = "antares" /\ pc = "cell_done"
    /\ nLoci >= 1 /\ Len(searches) = 3

\* C10: the query of every search is a bool/must of exactly two range
\* clauses, ra from ra[i] - 1 to ra[i] + 1 arcsecond and dec from dec[i] - 1
\* to dec[i] + 1 arcsecond, both bounds included (gte, lte), both from row i
\* of the candidate list, and nothing else.
C10_QueryIsBox ==
    \A k \in 1..Len(searches) :
        LET q == searches[k].query
            row == catalog[searches[k].i]
            must == q.query.bool.must
        IN  /\ DOMAIN q = {"query"}
            /\ DOMAIN q.query = {"bool"}
            /\ DOMAIN q.query.bool = {"must"}
            /\ Len(must) = 2
            /\ DOMAIN must[1] = {"range"} /\ DOMAIN must[1].range = {"ra"}
            /\ DOMAIN must[2] = {"range"} /\ DOMAIN must[2].range = {"dec"}
            /\ DOMAIN must[1].range.ra = {"gte", "lte"}
            /\ DOMAIN must[2].range.dec = {"gte", "lte"}
            /\ must[1].range.ra.gte = row.ra - 1
            /\ must[1].range.ra.lte = row.ra + 1
            /\ must[2].range.dec.gte = row.dec - 1
            /\ must[2].range.dec.lte = row.dec + 1

\* All three candidates were searched, in a list whose rows differ.
C10_Witness ==
    /\ notebook = "antares" /\ Len(searches) = 3
    /\ catalog[228] # catalog[229]
    /\ catalog[228].ra # catalog[228].dec

\* The hit lines printed so far, in the order printed.
HitLines == SelectSeq(output, LAMBDA l : l.text = "Got a hit on locus_id: ")

\* The light-curve cell was executed: it drew its figure or it raised.
LightCurveCellRan ==
    notebook = "antares" /\ (pc = "cell_done" \/ error = "NameError")

\* C11 (as claimed): whenever the light-curve cell has been executed it has
\* drawn the figure, a hit was reported, the points drawn are the valid r
\* and g rows of the last locus a hit line names, and the title names that
\* locus.  The code breaks it: the cell draws whatever dn the query cell
\* left, which is the last locus processed, under a literal title, and
\* raises NameError when no locus was returned.
C11_PlotsLastHit ==
    LightCurveCellRan =>
        /\ pc = "cell_done"
        /\ HitLines # <<>>
        /\ LET last == HitLines[Len(HitLines)].locus_id
               frame == DropNa(SelectColumns(ToPandas(locus.timeseries),
                                             SelectedColumns))
           IN  /\ locus.locus_id = last
               /\ figure.red = BandPoints(frame, RBand)
               /\ figure.green = BandPoints(frame, GBand)
               /\ figure.title.locus_id = last

\* The files a pass leaves when every call succeeded: the list, the four
\* downloads, the log and the image of every call that writes one.
CompleteRunFiles ==
    {<<"gmos.list">>, LogFile}
      \cup { GmosList[k].file : k \in 1..Len(GmosList) }
      \cup { Fits(OutputName(GmosCalls[k])) :
               k \in { j \in 1..Len(GmosCalls) :
                          OutputName(GmosCalls[j]) # NoName } }

\* C12: a first pass that reached its end left the files of a complete run.
\* In a second pass over the reduction cells without clean-up every call
\* that writes an image fails because that image exists, and writes nothing.
\* After the two clean-up commands no file and no database entry of the run
\* remains, and a second pass from the download cell that gets the four
\* frames goes as the first: every call succeeds and writes its image, and
\* the pass ends with the files of a complete run and a spectrum displayed.
C12_RerunNeedsCleanUp ==
    notebook = "gmos" =>
      /\ (run = 1 /\ pc = "cell_done") =>
            FileNames = CompleteRunFiles /\ SolutionNames # {}
      /\ (run = 2 /\ ~cleaned) =>
            /\ FileNames = CompleteRunFiles
            /\ \A k \in 1..Len(steps) :
                  LET s == steps[k]
                      out == OutputName(s.call)
                  IN  out # NoName =>
                        /\ ~s.ok /\ s.wrote = {}
                        /\ s.missing = {} /\ s.unsolved = {}
                        /\ s.exists = {Fits(out)}
      /\ (run = 2 /\ cleaned /\ pc = "download") =>
            files = {} /\ database = {}
      /\ (run = 2 /\ cleaned /\ pc # "download"
            /\ netlog[Len(netlog)].ok) =>
            /\ error = ""
            /\ \A k \in 1..Len(steps) :
                  /\ steps[k].ok
                  /\ OutputName(steps[k].call) # NoName =>
                        steps[k].wrote = {Fits(OutputName(steps[k].call))}
            /\ pc = "cell_done" =>
                  /\ FileNames = CompleteRunFiles /\ SolutionNames # {}
                  /\ Len(steps) = Len(GmosCalls)
                  /\ Shape0(wave) = Shape0(flux)

\* After clean-up the second pass ran from the download cell to the plot.
C12_Witness ==
    /\ notebook = "gmos" /\ run = 2 /\ cleaned /\ pc = "cell_done"
    /\ Len(steps) = Len(GmosCalls)
    /\ \A k \in 1..Len(steps) : steps[k].ok

\* The files gmos.list names.
ListedFiles == { GmosList[k].file : k \in 1..Len(GmosList) }

\* The raw frames and biases the gsreduce calls name as inputs: the input
\* of a call on a raw frame, and the bias of a call that subtracts one.
RawInputs ==
    UNION { ({Fits(GmosCalls[k].input)} \cap
               {Fits(Science), Fits(Arc), Fits(FlatFrame)})
            \cup (IF GmosCalls[k].fl_bias THEN {Fits(GmosCalls[k].bias)}
                                          ELSE {})
            : k \in { j \in 1..Len(GmosCalls) :
                         GmosCalls[j].task = "gsreduce" } }

\* C13 (as claimed): gmos.list names exactly the science, arc and flat
\* frames and the bias; every raw input of a gsreduce call is among them;
\* and once a reduction call has run each of them is in the directory,
\* put there by the download.  The code breaks the last part: a wget that
\* fails does not stop the notebook of a Python 2.7 kernel, and the calls
\* run on frames that were never downloaded.
C13_ListIsDownloaded ==
    /\ ListedFiles = {Fits(Science), Fits(Arc), Fits(FlatFrame), Fits(Bias)}
    /\ Len(GmosList) = 4
    /\ RawInputs = ListedFiles
    /\ (notebook = "gmos" /\ Len(steps) >= 1) =>
          \A n \in RawInputs : [name |-> n, by |-> 0] \in files

\* The calls of the basic reduction cell.
BasicCalls == SubSeq(GmosCalls, 1, 5)

\* How often a bias was subtracted, or a flat applied, on the way from the
\* raw frame to the image of this name: the calls that wrote the image and
\* its ancestors.
RECURSIVE Applied(_, _)
Applied(name, flag) ==
    IF name \notin FileNames \/ WrittenBy(name) = 0
      THEN 0
      ELSE LET c == GmosCalls[WrittenBy(name)]
           IN  (IF c.task = "gsreduce" /\ c[flag] THEN 1 ELSE 0)
                 + Applied(Fits(c.input), flag)

\* C14: calls 1 to 3 are gsreduce on the raw science, arc and flat frames,
\* all with the bias N20190304S0204_bias and without flat-fielding; call 4
\* is gsflat, reading the image call 3 writes; call 5 is gsreduce on the
\* image call 1 writes, with the flat call 4 writes and with fl_bias off,
\* and it is the only call that applies a flat.  Once call 5 has succeeded,
\* calls 1, 3 and 4 have, its image has had the bias subtracted once and
\* the flat applied once, and the reduced arc and flat frames have had the
\* bias subtracted once and no flat applied.
C14_BasicReduction ==
    /\ \A k \in 1..3 :
          /\ BasicCalls[k].task = "gsreduce"
          /\ BasicCalls[k].input = <<Science, Arc, FlatFrame>>[k]
          /\ BasicCalls[k].bias = Bias
          /\ BasicCalls[k].fl_bias /\ ~BasicCalls[k].fl_flat
    /\ BasicCalls[4].task = "gsflat"
    /\ BasicCalls[4].input = OutputName(BasicCalls[3])
    /\ BasicCalls[5].task = "gsreduce"
    /\ BasicCalls[5].input = OutputName(BasicCalls[1])
    /\ BasicCalls[5].flat = OutputName(BasicCalls[4])
    /\ BasicCalls[5].fl_flat /\ ~BasicCalls[5].fl_bias
    /\ \A k \in 1..Len(GmosCalls) :
          (GmosCalls[k].task = "gsreduce" /\ GmosCalls[k].fl_flat) => k = 5
    /\ (notebook = "gmos" /\ run = 1 /\ Len(steps) >= 5 /\ steps[5].ok) =>
          LET science == Fits(OutputName(BasicCalls[5])) IN
          /\ \A k \in {1, 3, 4} : steps[k].ok
          /\ Applied(science, "fl_bias") = 1
          /\ Applied(science, "fl_flat") = 1
          /\ \A k \in 2..3 :
                steps[k].ok =>
                  /\ Applied(Fits(OutputName(BasicCalls[k])), "fl_bias") = 1
                  /\ Applied(Fits(OutputName(BasicCalls[k])), "fl_flat") = 0

\* The basic reduction cell ran to its last call and the call succeeded.
C14_Witness ==
    /\ notebook = "gmos" /\ run = 1
    /\ Len(steps) = 5 /\ steps[5].ok

\* C15 (as claimed): the line 'You have successfully installled: Rebound' is
\* in the output only when rebound is installed, and the line 'You have
\* succesfully downloaded the additional tools' only when tools.ipynb holds
\* the helper notebook.  The code breaks both: each print follows its
\* command unconditionally, the exit status of pip is not looked at and the
\* status of the response is not looked at.
C15_SuccessOnlyOnSuccess ==
    notebook = "solar" =>
      /\ PrintLine("You have successfully installled: Rebound")
             \in Range(output) => "rebound" \in installed
      /\ PrintLine("You have succesfully downloaded the additional tools")
             \in Range(output) => toolsFile = "helpers"

\* The network and shell calls made so far, by name.
CallsMade == { netlog[k].call : k \in 1..Len(netlog) }

\* The statements after %run tools.ipynb.
AfterRunTools ==
    pc \in {"filterwarnings", "print_done", "sim", "save", "cell_done"}

\* C16: in a top-to-bottom run, when %run tools.ipynb is about to execute
\* the file has been written from the response of requests.get, and the
\* helpers are bound only once a file holding the helper notebook was run;
\* when import rebound is about to execute pip install has run, and
\* rebound is bound only if it is installed; and a helper is called only
\* after %run has bound all four: no simulation exists before, and no call
\* ever ends in a NameError.
C16_SetUpOrder ==
    notebook = "solar" =>
      /\ pc = "run_tools" =>
            /\ toolsFile # "absent" /\ toolsFile = response.content
            /\ "requests.get" \in CallsMade
      /\ namespace \cap HelperNames # {} =>
            /\ HelperNames \subseteq namespace
            /\ toolsFile = "helpers" /\ AfterRunTools
      /\ pc = "import_rebound" => "pip" \in CallsMade
      /\ "rebound" \in namespace =>
            "rebound" \in installed /\ "pip" \in CallsMade
      /\ (sims # <<>> \/ stmt > 1) =>
            /\ HelperNames \subseteq namespace
            /\ "rebound" \in namespace
            /\ AfterRunTools
      /\ AfterRunTools => HelperNames \subseteq namespace
      /\ error # "NameError"

\* The notebook ran to its end and simulations were built and run.
C16_Witness ==
    /\ notebook = "solar" /\ pc = "cell_done"
    /\ sims # <<>> /\ sims[1].ran
    /\ stmt = Len(SimStatements) + 1

\* The magnitudes of the rows of a time series that have the band id b and
\* a timestamp, a magnitude and an uncertainty, in the order of the rows.
CompleteBandMags(ts, b) ==
    LET rows == SelectSeq(ts, LAMBDA r : /\ r.ztf_fid = b
                                         /\ r.ant_mjd # Masked
                                         /\ r.ztf_magpsf # Masked
                                         /\ r.ztf_sigmapsf # Masked)
    IN  [k \in 1..Len(rows) |-> rows[k].ztf_magpsf]

\* C17: when the band checks of a locus run, the magnitudes each check
\* takes its max and min over are those of the rows of the time series in
\* which timestamp, band id, magnitude and uncertainty are all present; a
\* row that lacks one of them is not in dn whatever its magnitude, a row
\* that lacks only a column that is not selected is; and the g-band hit
\* line is decided by those rows alone.
C17_OnlyCompleteRows ==
    (notebook = "antares" /\ pc \in {"check_g", "check_r"}) =>
      /\ \A b \in {GBand, RBand} :
            BandMags(dn, b) = CompleteBandMags(locus.timeseries, b)
      /\ \A k \in 1..Len(dn) : \A c \in SelectedColumns : dn[k][c] >= 0
      /\ Len(dn) = Cardinality({ k \in 1..Len(locus.timeseries) :
                      \A c \in SelectedColumns :
                          locus.timeseries[k][c] # Masked })
      /\ pc = "check_r" =>
            (HitLine(locus.locus_id, "g-band") \in Range(output)
               <=> PyMax(CompleteBandMags(locus.timeseries, GBand))
                     - PyMin(CompleteBandMags(locus.timeseries, GBand)) > 2)

\* The g-band check passed without a hit on a locus that has a g-band row
\* with a magnitude far from the others but without uncertainty, and a
\* g-band row that lacks only a column that is not selected.
C17_Witness ==
    /\ notebook = "antares" /\ pc = "check_r"
    /\ HitLine(locus.locus_id, "g-band") \notin Range(output)
    /\ \E k \in 1..Len(locus.timeseries) :
          LET r == locus.timeseries[k]
          IN  /\ r.ztf_fid = GBand /\ r.ztf_magpsf = 20
              /\ r.ztf_sigmapsf = Masked
    /\ \E k \in 1..Len(locus.timeseries) :
          LET r == locus.timeseries[k]
          IN  r.ztf_fid = GBand /\ r.ztf_magap = Masked
    /\ Len(BandMags(dn, GBand)) = 2

\* The rows of a time series that carry the band id b, and nothing else of
\* the time series.
OnlyBand(ts, b) == SelectSeq(ts, LAMBDA r : r.ztf_fid = b)

\* What the rows of band b alone say: they span more than 2 mag.
BandAloneVaries(ts, b) ==
    LET mags == CompleteBandMags(OnlyBand(ts, b), b)
    IN  mags # <<>> /\ PyMax(mags) - PyMin(mags) > Threshold

\* C18 (as claimed): once the cell is through with a locus, whether its
\* g-band line was printed is a function of its rows with band id 1 alone,
\* and whether its r-band line was printed is a function of its rows with
\* band id 2 alone.  The code breaks it: with the same r-band rows the
\* r-band line is printed or not depending on whether the locus has a
\* g-band row, because the g-band check raises on an empty band before the
\* r-band check runs.
C18_BandsIndependent ==
    LocusHandled =>
        /\ HitLine(locus.locus_id, "g-band") \in Range(output)
              <=> BandAloneVaries(locus.timeseries, GBand)
        /\ HitLine(locus.locus_id, "r-band") \in Range(output)
              <=> BandAloneVaries(locus.timeseries, RBand)

IsIteration(line) == line.text = "Iteration: "
IsHit(line) == line.text = "Got a hit on locus_id: "

\* The Iteration lines printed so far, in the order printed.
IterationLines == SelectSeq(output, IsIteration)

\* The statements between the binding of a locus and the end of its checks.
HandlingLocus ==
    pc \in {"with", "simplefilter", "to_pandas", "exit_with", "select",
            "dropna", "check_g", "check_r"}

\* C19: the output starts with an Iteration line; its Iteration lines are
\* those of the candidates in the order of the loop; while the cell handles
\* a locus the last Iteration line is that of the candidate being searched,
\* and the candidate does not change; a line is only ever added at the end;
\* an Iteration line is added for the current candidate, a hit line only by
\* a band check of the locus in hand, the g-band line by the first check and
\* the r-band line by the second; and the two lines of one locus are
\* adjacent, g before r.
C19_OutputOrder ==
    /\ [](notebook = "antares" =>
            /\ output # <<>> => IsIteration(output[1])
            /\ Len(IterationLines) \in {idx - 1, idx}
            /\ \A k \in 1..Len(IterationLines) :
                  IterationLines[k]
                    = IterationLine(Candidates[k], catalog[Candidates[k]])
            /\ HandlingLocus => Len(IterationLines) = idx
            /\ \A p, q \in 1..Len(output) :
                  (/\ p < q /\ IsHit(output[p]) /\ IsHit(output[q])
                   /\ output[p].locus_id = output[q].locus_id)
                    => /\ q = p + 1
                       /\ output[p].band = "g-band"
                       /\ output[q].band = "r-band")
    /\ [][notebook = "antares" =>
            /\ HandlingLocus =>
                  idx' = idx /\ locus' = locus /\ searches' = searches
            /\ output' # output =>
                  /\ Len(output') = Len(output) + 1
                  /\ SubSeq(output', 1, Len(output)) = output
                  /\ LET line == output'[Len(output')]
                     IN  IF IsIteration(line)
                           THEN /\ pc = "print"
                                /\ line.i = Candidates[idx]
                                /\ Len(searches) = idx - 1
                           ELSE /\ IsHit(line)
                                /\ pc \in {"check_g", "check_r"}
                                /\ line.locus_id = locus.locus_id
                                /\ line.band = IF pc = "check_g"
                                                 THEN "g-band" ELSE "r-band"
                                /\ searches[Len(searches)].i
                                     = IterationLines[Len(IterationLines)].i]_vars

\* The cell ended with the lines of two candidates and of two loci in the
\* output, both lines for one locus and a line for the other.
C19_Witness ==
    /\ notebook = "antares" /\ pc = "cell_done"
    /\ Len(IterationLines) = 3
    /\ HitLine(1, "g-band") \in Range(output)
    /\ HitLine(1, "r-band") \in Range(output)
    /\ HitLine(2, "r-band") \in Range(output)
    /\ IsIteration(output[4])

\* The k-th search was answered, its answer has been read to the end and it
\* held no locus.
ReturnedNoLocus(k) ==
    /\ k \in 1..Len(searches)
    /\ netlog[k].ok /\ searches[k].loci = 0
    /\ k < Len(searches) \/ ~(pc = "locus" \/ HandlingLocus)

\* The place in the output of the Iteration line of the k-th candidate.
IterationAt(k) ==
    CHOOSE p \in 1..Len(output) :
        IsIteration(output[p]) /\ output[p].i = Candidates[k]

\* C20: for a candidate whose search returned no locus, the Iteration line
\* is in the output and the line after it, if any, is the next Iteration
\* line; nothing was raised on its account: the cell goes on to the next
\* candidate, whose search is issued, and the cell that ends normally has
\* searched all three; and the step that finds the answer empty prints
\* nothing and raises nothing.
C20_EmptyAnswerGoesOn ==
    /\ [](notebook = "antares" =>
            \A k \in 1..Len(Candidates) :
              ReturnedNoLocus(k) =>
                /\ Len(IterationLines) >= k
                /\ IterationAt(k) = Len(output)
                     \/ IsIteration(output[IterationAt(k) + 1])
                /\ k = Len(searches) =>
                     IF k < Len(Candidates)
                       THEN error = "" /\ pc \in {"for", "print", "query",
                                                  "search"}
                       ELSE error \in {"", "NameError"}
                            /\ pc \in {"for", "ylim", "scatter", "cell_done",
                                       "raised"})
    /\ [][(notebook = "antares" /\ pc = "locus" /\ pc' # "with"
            /\ searches[Len(searches)].loci = 0)
             => (pc' = "for" /\ error' = "" /\ output' = output
                 /\ idx' = idx)]_vars

\* As in the recorded run: the first candidate returned no locus, a later
\* one did and a hit was reported, and the cell ended.
C20_Witness ==
    /\ notebook = "antares" /\ pc = "cell_done"
    /\ ReturnedNoLocus(1)
    /\ searches[3].loci >= 1
    /\ HitLines # <<>>

\* The locus in hand has no row of band b with all four columns present.
BandIsEmpty(b) == CompleteBandMags(locus.timeseries, b) = <<>>

\* C21: a band check of a locus without a complete row in that band raises
\* ValueError and prints nothing, and a band check of a band with such a
\* row does not raise; the lines printed are never taken back; and once
\* the error is raised nothing more runs: the cell has stopped with the
\* locus in hand, whose checked band is empty, no line of that locus for
\* the empty band or for a band not yet checked is in the output, and no
\* further locus or candidate is taken up.
C21_EmptyBandRaises ==
    /\ [](notebook = "antares" =>
            /\ error = "ValueError" =>
                  /\ pc = "raised" /\ ~ENABLED Next
                  /\ BandIsEmpty(GBand) \/ BandIsEmpty(RBand)
                  /\ locus.locus_id = nLoci
                  /\ Len(searches) = idx /\ figure = NoValue
                  /\ HitLine(locus.locus_id, "r-band") \notin Range(output)
                  /\ BandIsEmpty(GBand) =>
                        HitLine(locus.locus_id, "g-band") \notin Range(output)
            /\ (pc = "check_r" \/ (pc = "locus" /\ "locus" \in bound
                                      /\ searches[Len(searches)].loci > 0))
                  => ~BandIsEmpty(GBand)
            /\ (pc = "locus" /\ "locus" \in bound
                   /\ searches[Len(searches)].loci > 0)
                  => ~BandIsEmpty(RBand))
    /\ [][notebook = "antares" =>
            /\ Len(output) <= Len(output')
            /\ SubSeq(output', 1, Len(output)) = output
            /\ (pc = "check_g" /\ BandIsEmpty(GBand)) =>
                  (error' = "ValueError" /\ pc' = "raised" /\ output' = output)
            /\ (pc = "check_r" /\ BandIsEmpty(RBand)) =>
                  (error' = "ValueError" /\ pc' = "raised" /\ output' = output)
            /\ (pc = "check_g" /\ ~BandIsEmpty(GBand)) =>
                  (error' = "" /\ pc' = "check_r")
            /\ (pc = "check_r" /\ ~BandIsEmpty(RBand)) =>
                  (error' = "" /\ pc' = "locus")]_vars

\* The r-band check of a second locus raised after the g-band line of that
\* locus and a line of an earlier locus were printed, with candidates left.
C21_Witness ==
    /\ notebook = "antares" /\ pc = "raised" /\ error = "ValueError"
    /\ ~BandIsEmpty(GBand) /\ BandIsEmpty(RBand)
    /\ locus.locus_id = 2 /\ idx < Len(Candidates)
    /\ HitLine(1, "r-band") \in Range(output)
    /\ HitLine(2, "g-band") \in Range(output)

====
